---------------------------- MODULE Spec2Model ----------------------------
(***************************************************************************)
(* A model of stanza/text/dataset.py: the Dataset container, its columns   *)
(* (Python lists held by reference in an OrderedDict), and the operations  *)
(* __init__, __len__, __getitem__, __setitem__, __iter__, convert,         *)
(* shuffle, copy, write_conll and load_conll.                              *)
(*                                                                         *)
(* Python lists are objects with identity: `heap` maps a list reference to *)
(* the list's current contents, and a Dataset's `fields` is a sequence of  *)
(* <<name, reference>> pairs in OrderedDict insertion order.               *)
(***************************************************************************)
EXTENDS Integers, Sequences, FiniteSets, TLC

VARIABLES
    heap,   \* list reference -> contents of that Python list
    objs,   \* Dataset object id -> its self.fields, a sequence of <<name, ref>>
    last,   \* the last call: its operation, the shape of its arguments, its outcome
    file,   \* contents of the CONLL file, a sequence of characters
    it      \* the generator returned by __iter__ and its position

vars == <<heap, objs, last, file, it>>

-----------------------------------------------------------------------------
(* Bounds and input sets *)

MaxLen == 2       \* longest column the model builds
MaxCells == 4     \* most values one Dataset of SpecCopy holds

\* `length = None` in __init__ (lengths are never negative)
NoLength == -1

Vals == 0 .. 1

\* field orders used for the datasets of Spec
FieldOrders == { <<>>, <<"a">>, <<"b", "a">> }

RECURSIVE Perms(_)
\* all orderings of the elements of set S, as sequences
Perms(S) ==
    IF S = {} THEN { <<>> }
    ELSE UNION { { <<x>> \o p : p \in Perms(S \ {x}) } : x \in S }

-----------------------------------------------------------------------------
(* OrderedDict and list helpers *)

Range(s) == { s[k] : k \in 1 .. Len(s) }

\* OrderedDict.keys()
Keys(f) == [k \in 1 .. Len(f) |-> f[k][1]]

\* `name in mapping`
HasKey(f, name) == \E k \in 1 .. Len(f) : f[k][1] = name

\* mapping[name]
Lookup(f, name) == f[CHOOSE k \in 1 .. Len(f) : f[k][1] = name][2]

\* the columns of a Dataset by value: a sequence of <<name, contents>>
Cols(h, f) == [k \in 1 .. Len(f) |-> <<f[k][1], h[f[k][2]]>>]

\* the smallest n list references not in use in heap h
RECURSIVE FreshRefs(_, _, _)
FreshRefs(used, n, from) ==
    IF n = 0 THEN <<>>
    ELSE IF from \in used THEN FreshRefs(used, n, from + 1)
    ELSE <<from>> \o FreshRefs(used, n - 1, from + 1)

\* the list references the live Dataset objects hold, object by object, field
\* by field
RefSeq(os) ==
    (IF 1 \in DOMAIN os THEN [k \in 1 .. Len(os[1]) |-> os[1][k][2]] ELSE <<>>)
    \o (IF 2 \in DOMAIN os THEN [k \in 1 .. Len(os[2]) |-> os[2][k][2]] ELSE <<>>)

\* the number a list gets when the lists are numbered in the order the
\* objects hold them (a list's identity is not its number: two fields hold
\* the same number exactly when they hold the same list)
RefId(seq, r) ==
    Cardinality({ seq[j] : j \in 1 .. (CHOOSE k \in 1 .. Len(seq) :
                        seq[k] = r /\ \A i \in 1 .. k - 1 : seq[i] # r) })

\* the objects over the renumbered lists
CollectObjs(os) ==
    LET seq == RefSeq(os)
    IN  [o \in DOMAIN os |->
            [k \in 1 .. Len(os[o]) |-> <<os[o][k][1], RefId(seq, os[o][k][2])>>]]

\* the heap without the lists no Dataset refers to any more
CollectHeap(h, os) ==
    LET seq == RefSeq(os)
    IN  [n \in 1 .. Cardinality(Range(seq)) |->
            h[CHOOSE r \in Range(seq) : RefId(seq, r) = n]]

\* allocate one new list per item of `items` (a sequence of <<name, contents>>)
\* and return the mapping by reference and the new heap
Allocate(h, items) ==
    LET refs == FreshRefs(DOMAIN h, Len(items), 1)
        new  == { refs[k] : k \in 1 .. Len(items) }
    IN  [ fields |-> [k \in 1 .. Len(items) |-> <<items[k][1], refs[k]>>],
          heap   |-> [r \in (DOMAIN h) \cup new |->
                        IF r \in DOMAIN h THEN h[r]
                        ELSE items[CHOOSE k \in 1 .. Len(items) : refs[k] = r][2]] ]

-----------------------------------------------------------------------------
(* Dataset.__init__ *)

NoError == "ok"

RECURSIVE InitLoopFalsy(_, _, _, _, _)
\* the loop with `if not length` in place of `if length is None`
InitLoopFalsy(h, fields, k, length, length_field) ==
    IF k > Len(fields) THEN [err |-> NoError, msg |-> <<>>]
    ELSE LET name == fields[k][1]
             d    == h[fields[k][2]]
         IN  IF length = NoLength \/ length = 0
             THEN InitLoopFalsy(h, fields, k + 1, Len(d), name)
             ELSE IF Len(d) # length
                  THEN [err |-> "InvalidFieldsException",
                        msg |-> <<"length", length_field, length, name, Len(d)>>]
                  ELSE InitLoopFalsy(h, fields, k + 1, length, length_field)

RECURSIVE InitLoop(_, _, _, _, _)
\* `for name, d in fields.items()`, from the k-th item on
InitLoop(h, fields, k, length, length_field) ==
    IF k > Len(fields) THEN [err |-> NoError, msg |-> <<>>]
    ELSE LET name == fields[k][1]
             d    == h[fields[k][2]]
         IN  IF length = NoLength
             THEN InitLoop(h, fields, k + 1, Len(d), name)
             ELSE IF Len(d) # length
                  THEN [err |-> "InvalidFieldsException",
                        msg |-> <<"length", length_field, length, name, Len(d)>>]
                  ELSE InitLoop(h, fields, k + 1, length, length_field)

\* Dataset(fields): the outcome of the constructor; on success the object's
\* self.fields is OrderedDict(fields), the same lists by reference
__init__(h, fields) == InitLoop(h, fields, 1, NoLength, "")

\* Dataset.__len__
__len__(h, f) == IF Len(f) = 0 THEN 0 ELSE Len(h[f[1][2]])

-----------------------------------------------------------------------------
(* Python list indexing *)

Min(x, y) == IF x < y THEN x ELSE y
Max(x, y) == IF x > y THEN x ELSE y

\* an integer index i is valid for a list of length n
ValidIndex(n, i) == -n <= i /\ i < n

\* the 1-based position an integer index denotes
Pos(n, i) == IF i < 0 THEN i + n + 1 ELSE i + 1

\* slice bounds lo:hi clamped to a list of length n, as slice.indices does
Clamp(n, x) == IF x < 0 THEN Max(x + n, 0) ELSE Min(x, n)
Start(n, key) == Clamp(n, key[2])
Stop(n, key) == Max(Clamp(n, key[3]), Start(n, key))

\* keys: <<"int", i, 0>> is the index i, <<"slice", lo, hi>> the slice lo:hi
IsInt(key) == key[1] = "int"

\* data[key]
ListGet(data, key) ==
    IF IsInt(key) THEN data[Pos(Len(data), key[2])]
    ELSE SubSeq(data, Start(Len(data), key) + 1, Stop(Len(data), key))

\* data[key] = v, writing one position further than asked
ListSetShifted(data, key, v) ==
    IF IsInt(key)
    THEN [data EXCEPT ![(Pos(Len(data), key[2]) % Len(data)) + 1] = v]
    ELSE SubSeq(data, 1, Start(Len(data), key)) \o v
         \o SubSeq(data, Stop(Len(data), key) + 1, Len(data))

\* data[key] = v
ListSet(data, key, v) ==
    IF IsInt(key)
    THEN [data EXCEPT ![Pos(Len(data), key[2])] = v]
    ELSE SubSeq(data, 1, Start(Len(data), key)) \o v
         \o SubSeq(data, Stop(Len(data), key) + 1, Len(data))

-----------------------------------------------------------------------------
(* Dataset.__getitem__ and Dataset.__setitem__ *)

\* the first field whose column is too short for the integer index, or 0
FirstShort(h, f, key) ==
    IF IsInt(key) /\ \E k \in 1 .. Len(f) : ~ValidIndex(Len(h[f[k][2]]), key[2])
    THEN CHOOSE k \in 1 .. Len(f) :
            /\ ~ValidIndex(Len(h[f[k][2]]), key[2])
            /\ \A j \in 1 .. k - 1 : ValidIndex(Len(h[f[j][2]]), key[2])
    ELSE 0

\* self[item]: an ordered mapping name -> data[item], or IndexError
__getitem__(h, f, item) ==
    IF FirstShort(h, f, item) # 0
    THEN [err |-> "IndexError", row |-> <<>>]
    ELSE [err |-> NoError,
          row |-> [k \in 1 .. Len(f) |-> <<f[k][1], ListGet(h[f[k][2]], item)>>]]

RECURSIVE SetLoop(_, _, _, _, _)
\* `for name, data in self.fields.items()` of __setitem__, from the k-th field on
SetLoop(h, f, k, key, value) ==
    IF k > Len(f) THEN [heap |-> h, err |-> NoError, msg |-> <<>>]
    ELSE LET name == f[k][1]
             ref  == f[k][2]
         IN  IF ~HasKey(value, name)
             THEN [heap |-> h, err |-> "InvalidFieldsException",
                   msg |-> <<"missing", name>>]
             ELSE IF IsInt(key) /\ ~ValidIndex(Len(h[ref]), key[2])
             THEN [heap |-> h, err |-> "IndexError", msg |-> <<"index", name>>]
             ELSE SetLoop([h EXCEPT ![ref] = ListSet(@, key, Lookup(value, name))],
                          f, k + 1, key, value)

\* self[key] = value
__setitem__(h, f, key, value) == SetLoop(h, f, 1, key, value)

-----------------------------------------------------------------------------
(* Dataset.copy, Dataset.convert, Dataset.shuffle *)

\* the columns shared with the original instead of duplicated
AliasColumns(h, f) == [fields |-> f, heap |-> h]

\* OrderedDict([(name, data[:]) for name, data in self.fields.items()])
DuplicateColumns(h, f) == Allocate(h, Cols(h, f))

\* self.__class__(OrderedDict([(name, data[:]) ...])): a new Dataset over
\* duplicated columns, or the exception of its constructor
NewDataset(h, f) ==
    LET a == DuplicateColumns(h, f)
        r == __init__(a.heap, a.fields)
    IN  [heap |-> a.heap, new |-> a.fields, err |-> r.err, msg |-> r.msg]

\* Dataset.copy
copy(h, f) ==
    LET n == NewDataset(h, f)
    IN  [heap |-> n.heap, fields |-> f,
         new |-> IF n.err = NoError THEN n.new ELSE <<>>,
         ret |-> IF n.err = NoError THEN "new" ELSE "none",
         err |-> n.err, msg |-> n.msg]

\* the caller's converter functions, over the values of the model
Apply(fn, x) == IF fn = "succ" THEN (x + 1) % 2 ELSE 0

\* every converter name checked before the first is applied
RECURSIVE ConvertLoopEager(_, _, _, _, _)
ConvertLoopEager(h, selfFields, f, converters, k) ==
    IF \E j \in 1 .. Len(converters) : ~HasKey(selfFields, converters[j][1])
    THEN [heap |-> h, err |-> "InvalidFieldsException",
          msg |-> <<"non-existent",
                    converters[CHOOSE j \in 1 .. Len(converters) :
                        /\ ~HasKey(selfFields, converters[j][1])
                        /\ \A i \in 1 .. j - 1 : HasKey(selfFields, converters[i][1])][1]>>]
    ELSE IF k > Len(converters) THEN [heap |-> h, err |-> NoError, msg |-> <<>>]
    ELSE ConvertLoopEager(
            [h EXCEPT ![Lookup(f, converters[k][1])] =
                [i \in 1 .. Len(@) |-> Apply(converters[k][2], @[i])]],
            selfFields, f, converters, k + 1)

\* a loop that converts the first field of the dataset whatever the name
RECURSIVE ConvertLoopFirst(_, _, _, _, _)
ConvertLoopFirst(h, selfFields, f, converters, k) ==
    IF k > Len(converters) THEN [heap |-> h, err |-> NoError, msg |-> <<>>]
    ELSE IF ~HasKey(selfFields, converters[k][1])
         THEN [heap |-> h, err |-> "InvalidFieldsException",
               msg |-> <<"non-existent", converters[k][1]>>]
         ELSE ConvertLoopFirst(
                [h EXCEPT ![f[1][2]] =
                    [i \in 1 .. Len(@) |-> Apply(converters[k][2], @[i])]],
                selfFields, f, converters, k + 1)

RECURSIVE ConvertLoop(_, _, _, _, _)
\* `for name, convert in converters.items()`, from the k-th converter on;
\* selfFields is self.fields, f is dataset.fields
ConvertLoop(h, selfFields, f, converters, k) ==
    IF k > Len(converters) THEN [heap |-> h, err |-> NoError, msg |-> <<>>]
    ELSE IF ~HasKey(selfFields, converters[k][1])
         THEN [heap |-> h, err |-> "InvalidFieldsException",
               msg |-> <<"non-existent", converters[k][1]>>]
         ELSE ConvertLoop(
                [h EXCEPT ![Lookup(f, converters[k][1])] =
                    [i \in 1 .. Len(@) |-> Apply(converters[k][2], @[i])]],
                selfFields, f, converters, k + 1)

\* Dataset.convert
convert(h, f, converters, in_place) ==
    IF in_place
    THEN LET r == ConvertLoop(h, f, f, converters, 1)
         IN  [heap |-> r.heap, fields |-> f, new |-> <<>>,
              ret |-> IF r.err = NoError THEN "self" ELSE "none",
              err |-> r.err, msg |-> r.msg]
    ELSE LET n == NewDataset(h, f)
         IN  IF n.err # NoError
             THEN [heap |-> n.heap, fields |-> f, new |-> <<>>, ret |-> "none",
                   err |-> n.err, msg |-> n.msg]
             ELSE LET r == ConvertLoop(n.heap, f, n.new, converters, 1)
                  IN  [heap |-> r.heap, fields |-> f,
                       new |-> IF r.err = NoError THEN n.new ELSE <<>>,
                       ret |-> IF r.err = NoError THEN "new" ELSE "none",
                       err |-> r.err, msg |-> r.msg]

\* a loop that reads the k-th column in an order of its own
RECURSIVE ShuffleLoopPerField(_, _, _, _)
ShuffleLoopPerField(h, f, k, order) ==
    IF k > Len(f) THEN [heap |-> h, fields |-> f, err |-> NoError]
    ELSE LET data == h[f[k][2]]
         IN  IF \E j \in 1 .. Len(order) : order[j] >= Len(data)
             THEN [heap |-> h, fields |-> f, err |-> "IndexError"]
             ELSE LET mine == IF k % 2 = 0
                              THEN [j \in 1 .. Len(order) |-> order[Len(order) + 1 - j]]
                              ELSE order
                      reindexed == [j \in 1 .. Len(order) |-> data[mine[j] + 1]]
                      ref == FreshRefs(DOMAIN h, 1, 1)[1]
                  IN  ShuffleLoopPerField(h @@ (ref :> reindexed),
                                          [f EXCEPT ![k] = <<f[k][1], ref>>],
                                          k + 1, order)

RECURSIVE ShuffleLoop(_, _, _, _)
\* `for name, data in self.fields.items()` of shuffle, from the k-th field on
ShuffleLoop(h, f, k, order) ==
    IF k > Len(f) THEN [heap |-> h, fields |-> f, err |-> NoError]
    ELSE LET data == h[f[k][2]]
         IN  IF \E j \in 1 .. Len(order) : order[j] >= Len(data)
             THEN [heap |-> h, fields |-> f, err |-> "IndexError"]
             ELSE LET reindexed == [j \in 1 .. Len(order) |-> data[order[j] + 1]]
                      ref == FreshRefs(DOMAIN h, 1, 1)[1]
                  IN  ShuffleLoop(h @@ (ref :> reindexed),
                                  [f EXCEPT ![k] = <<f[k][1], ref>>],
                                  k + 1, order)

\* Dataset.shuffle, with `order` the outcome of random.shuffle(range(len(self)))
shuffle(h, f, order) ==
    LET r == ShuffleLoop(h, f, 1, order)
    IN  [heap |-> r.heap, fields |-> r.fields, new |-> <<>>,
         ret |-> IF r.err = NoError THEN "self" ELSE "none",
         err |-> r.err, msg |-> <<>>]

-----------------------------------------------------------------------------
(* The calls a program makes on its Dataset objects *)

NoFile == <<"closed">>
NoIter == [state |-> "none", self |-> 0, n |-> 0, i |-> 0]

\* the Dataset objects after a call on `self` with outcome res: a returned new
\* Dataset becomes the program's other object
After(base, self, res) ==
    IF res.ret = "new"
    THEN [o \in (DOMAIN base) \cup {3 - self} |->
            IF o = 3 - self THEN res.new
            ELSE IF o = self THEN res.fields ELSE base[o]]
    ELSE [base EXCEPT ![self] = res.fields]

\* the objects the program still holds when it makes a call on `self`: with
\* keep = FALSE the Dataset returned by an earlier call has been dropped
Held(self, keep) == IF keep THEN objs ELSE [o \in {self} |-> objs[o]]

\* what `last` keeps of a call: the operation, the object it was made on, the
\* shape of its arguments, and how it ended
Record(op, self, kind, res) ==
    [op |-> op, self |-> self, kind |-> kind, arg |-> <<>>,
     err |-> res.err, msg |-> res.msg,
     ret |-> IF res.ret = "new" THEN 3 - self
             ELSE IF res.ret = "self" THEN self ELSE 0]

\* the state after a call on `self` with outcome res; the model builds no
\* column longer than MaxLen
Finish(self, keep, op, kind, res) ==
    /\ last' = Record(op, self, kind, res)
    /\ \A r \in DOMAIN res.heap : Len(res.heap[r]) <= MaxLen
    /\ heap' = CollectHeap(res.heap, After(Held(self, keep), self, res))
    /\ objs' = CollectObjs(After(Held(self, keep), self, res))

\* self[key] = value
SetItem(self, keep, key, value) ==
    /\ self \in DOMAIN objs
    /\ LET r == __setitem__(heap, objs[self], key, value)
       IN  Finish(self, keep, "set", key[1],
                  [heap |-> r.heap, fields |-> objs[self], new |-> <<>>,
                   ret |-> "none", err |-> r.err, msg |-> r.msg])

\* self.convert(converters, in_place)
Convert(self, keep, converters, in_place) ==
    /\ self \in DOMAIN objs
    /\ Finish(self, keep, "convert", IF in_place THEN "in_place" ELSE "new",
              convert(heap, objs[self], converters, in_place))

\* self.shuffle() when random.shuffle leaves `order`
ShuffleTo(self, keep, order) ==
    /\ self \in DOMAIN objs
    /\ Finish(self, keep, "shuffle", "", shuffle(heap, objs[self], order))

\* self.shuffle(): random.shuffle leaves any order of range(len(self))
Shuffle(self, keep) ==
    /\ self \in DOMAIN objs
    /\ \E order \in Perms(0 .. __len__(heap, objs[self]) - 1) :
            ShuffleTo(self, keep, order)

\* self.copy()
Copy(self, keep) ==
    /\ self \in DOMAIN objs
    /\ Finish(self, keep, "copy", "", copy(heap, objs[self]))

-----------------------------------------------------------------------------
(* Inputs of the calls *)

\* a column of n values for the k-th field
Column(n, k) == [i \in 1 .. n |-> (i + k) % 2]

\* an equal-length mapping for Dataset(fields)
Table(order, n) == [k \in 1 .. Len(order) |-> <<order[k], Column(n, k)>>]

IntKeys == { <<"int", i, 0>> : i \in -1 .. MaxLen }
SliceKeys == { <<"slice", 0, 1>>, <<"slice", 1, MaxLen>> }

\* the keys of the mappings assigned: every field and one more, or one missing
KeyLists == { <<"a", "b", "c", "z">>, <<"b", "c">>, <<"a", "c">>, <<"a", "b">> }

IntValues ==
    { [k \in 1 .. Len(ks) |-> <<ks[k], (v + k) % 2>>] : ks \in KeyLists, v \in Vals }

\* sequences assigned to a slice: of one length for every key, or longer for
\* the first key than for the others
SliceValues ==
    { [k \in 1 .. Len(ks) |-> <<ks[k], Column(n, k)>>] :
        ks \in { <<"a", "b", "c", "z">>, <<"a", "b">> }, n \in 0 .. 2 }
    \cup
    { [k \in 1 .. Len(ks) |-> <<ks[k], Column(IF k = 1 THEN 2 ELSE 1, k)>>] :
        ks \in { <<"a", "b", "c", "z">>, <<"a", "b">> } }

\* converter mappings in the order converters.items() yields them
ConverterLists ==
    { <<>>,
      << <<"a", "succ">> >>,
      << <<"c", "zero">> >>,
      << <<"a", "succ">>, <<"b", "zero">> >>,
      << <<"z", "succ">>, <<"a", "succ">> >>,
      << <<"a", "zero">>, <<"z", "succ">> >>,
      << <<"b", "succ">>, <<"z", "zero">>, <<"a", "succ">> >> }

-----------------------------------------------------------------------------
(* Spec: one Dataset and every call on it *)

Start0 == [op |-> "init", self |-> 0, kind |-> "", arg |-> <<>>, err |-> NoError,
           msg |-> <<>>, ret |-> 0]

\* the state after d = Dataset(Table(order, n))
Constructed(order, n) ==
    LET a == Allocate(<<>>, Table(order, n))
    IN  /\ __init__(a.heap, a.fields).err = NoError
        /\ heap = a.heap
        /\ objs = (1 :> a.fields)

Init ==
    /\ \E order \in FieldOrders, n \in 0 .. MaxLen : Constructed(order, n)
    /\ last = Start0
    /\ file = NoFile
    /\ it = NoIter

SetInt == \E key \in IntKeys, value \in IntValues : SetItem(1, FALSE, key, value)
SetSlice == \E key \in SliceKeys, value \in SliceValues : SetItem(1, FALSE, key, value)
ConvertAny ==
    \E converters \in ConverterLists, in_place \in BOOLEAN :
        Convert(1, FALSE, converters, in_place)
ShuffleAny == Shuffle(1, FALSE)
CopyAny == Copy(1, FALSE)

Next ==
    /\ (SetInt \/ SetSlice \/ ConvertAny \/ ShuffleAny \/ CopyAny)
    /\ UNCHANGED <<file, it>>

Spec == Init /\ [][Next]_vars

-----------------------------------------------------------------------------
(* Properties of Spec *)

\* the k-th column of a Dataset
Col(h, f, k) == h[f[k][2]]

\* every column of the Dataset has the length __len__ reports
Rectangular(h, f) == \A k \in 1 .. Len(f) : Len(Col(h, f, k)) = __len__(h, f)

\* the image of a column under a converter function
Image(fn, data) == [i \in 1 .. Len(data) |-> Apply(fn, data[i])]

\* C1: in every state reached from a successful construct by set (index or
\* slice), convert, shuffle and copy calls, all columns of the Dataset have
\* the same length N and length() returns N.
C1_EqualLengths == \A o \in DOMAIN objs : Rectangular(heap, objs[o])

\* C2: set(key, value) with a value that omits a field of the dataset fails,
\* and the failed call has mutated no column.
C2_FailedSetMutatesNothing ==
    [][ \A pair \in (IntKeys \X IntValues) \cup (SliceKeys \X SliceValues) :
          ( /\ last'.op = "set"
            /\ SetItem(1, FALSE, pair[1], pair[2])
            /\ \E k \in 1 .. Len(objs[1]) : ~HasKey(pair[2], objs[1][k][1]) )
          => /\ last'.err # NoError
             /\ Cols(heap', objs'[1]) = Cols(heap, objs[1]) ]_vars

\* C3: a shuffle that returns has applied one permutation perm of 0..N-1 to
\* every column: position j of every field holds the value that field had at
\* perm[j]; the length, the field names and their order are unchanged, and the
\* object returned is the one shuffled.
C3_ShuffleOnePermutation ==
    [][ (last'.op = "shuffle" /\ last'.err = NoError /\ Shuffle(1, FALSE))
        => LET N == __len__(heap, objs[1])
           IN  /\ last'.ret = 1
               /\ Keys(objs'[1]) = Keys(objs[1])
               /\ __len__(heap', objs'[1]) = N
               /\ \E perm \in Perms(0 .. N - 1) :
                    \A k \in 1 .. Len(objs[1]) :
                        Col(heap', objs'[1], k) =
                            [j \in 1 .. N |-> Col(heap, objs[1], k)[perm[j] + 1]] ]_vars

\* a shuffle of at least two different rows of two fields has returned
C3_Witness ==
    /\ last.op = "shuffle" /\ last.err = NoError
    /\ Len(objs[1]) = 2
    /\ __len__(heap, objs[1]) = 2
    /\ Col(heap, objs[1], 1)[1] # Col(heap, objs[1], 1)[2]
    /\ Col(heap, objs[1], 2)[1] # Col(heap, objs[1], 2)[2]

\* the converter keys that name no field of f
Unknown(f, converters) ==
    { j \in 1 .. Len(converters) : ~HasKey(f, converters[j][1]) }

\* the first of them in the order converters.items() yields
FirstUnknown(f, converters) ==
    CHOOSE j \in Unknown(f, converters) : \A i \in Unknown(f, converters) : j <= i

\* C4 as stated: when a key of converters names no field, the in-place convert
\* fails and every column is unchanged, wherever the unknown key stands.
C4_BadConverterLeavesUntouched ==
    [][ \A converters \in ConverterLists :
          ( /\ last'.op = "convert" /\ last'.kind = "in_place"
            /\ Unknown(objs[1], converters) # {}
            /\ Convert(1, FALSE, converters, TRUE) )
          => /\ last'.err = "InvalidFieldsException"
             /\ Cols(heap', objs'[1]) = Cols(heap, objs[1]) ]_vars

\* C4 amended: when a key of converters names no field, the in-place convert
\* fails naming the first such key in iteration order; the columns named by
\* the keys before it have been converted and every other column is unchanged.
C4_BadConverterAppliesPrefix ==
    [][ \A converters \in ConverterLists :
          ( /\ last'.op = "convert" /\ last'.kind = "in_place"
            /\ Unknown(objs[1], converters) # {}
            /\ Convert(1, FALSE, converters, TRUE) )
          => LET u == FirstUnknown(objs[1], converters)
             IN  /\ last'.err = "InvalidFieldsException"
                 /\ last'.msg = <<"non-existent", converters[u][1]>>
                 /\ last'.ret = 0
                 /\ Keys(objs'[1]) = Keys(objs[1])
                 /\ \A k \in 1 .. Len(objs[1]) :
                        Col(heap', objs'[1], k) =
                            IF \E j \in 1 .. u - 1 : converters[j][1] = objs[1][k][1]
                            THEN Image(converters[CHOOSE j \in 1 .. u - 1 :
                                            converters[j][1] = objs[1][k][1]][2],
                                       Col(heap, objs[1], k))
                            ELSE Col(heap, objs[1], k) ]_vars

\* an in-place convert of a dataset of two fields and two rows has failed on
\* the unknown key z
C4_Witness ==
    /\ last.op = "convert" /\ last.kind = "in_place"
    /\ last.err = "InvalidFieldsException"
    /\ last.msg = <<"non-existent", "z">>
    /\ Len(objs[1]) = 2
    /\ __len__(heap, objs[1]) = 2
    /\ Rectangular(heap, objs[1])

\* C5: for converters whose keys all name fields, convert(in_place=false)
\* leaves every column of the original unchanged and, on a Dataset whose
\* columns have one length, returns another Dataset with the same field order
\* in which each named field is the element-wise image of the original's and
\* each other field equals the original's.
C5_ConvertCopy ==
    [][ \A converters \in ConverterLists :
          ( /\ last'.op = "convert" /\ last'.kind = "new"
            /\ Unknown(objs[1], converters) = {}
            /\ Convert(1, FALSE, converters, FALSE) )
          => /\ Cols(heap', objs'[1]) = Cols(heap, objs[1])
             /\ (last'.err = NoError) <=> Rectangular(heap, objs[1])
             /\ last'.err = NoError
                => /\ last'.ret = 2
                   /\ Keys(objs'[2]) = Keys(objs[1])
                   /\ \A k \in 1 .. Len(objs[1]) :
                        Col(heap', objs'[2], k) =
                            IF HasKey(converters, objs[1][k][1])
                            THEN Image(Lookup(converters, objs[1][k][1]),
                                       Col(heap, objs[1], k))
                            ELSE Col(heap, objs[1], k) ]_vars

\* a convert to a new Dataset has changed one of two columns of two rows
C5_Witness ==
    /\ last.op = "convert" /\ last.kind = "new" /\ last.err = NoError
    /\ 2 \in DOMAIN objs
    /\ Len(objs[1]) = 2
    /\ __len__(heap, objs[1]) = 2
    /\ Col(heap, objs[1], 1) = Col(heap, objs[2], 1)
    /\ Col(heap, objs[1], 2) # Col(heap, objs[2], 2)

\* C9: set(i, value) with an integer index valid for every column and a value
\* holding every field replaces position i of each column by value[field] and
\* leaves every other position, the field names and their order as they were;
\* keys of value that are no fields are ignored.
C9_SetIndexReplaces ==
    [][ \A key \in IntKeys, value \in IntValues :
          ( /\ last'.op = "set" /\ last'.kind = "int"
            /\ \A k \in 1 .. Len(objs[1]) :
                 /\ HasKey(value, objs[1][k][1])
                 /\ ValidIndex(Len(Col(heap, objs[1], k)), key[2])
            /\ SetItem(1, FALSE, key, value) )
          => /\ last'.err = NoError
             /\ Keys(objs'[1]) = Keys(objs[1])
             /\ \A k \in 1 .. Len(objs[1]) :
                  LET old == Col(heap, objs[1], k)
                      new == Col(heap', objs'[1], k)
                      p   == IF key[2] < 0 THEN Len(old) + key[2] + 1 ELSE key[2] + 1
                  IN  /\ Len(new) = Len(old)
                      /\ new[p] = Lookup(value, objs[1][k][1])
                      /\ \A j \in 1 .. Len(old) : j # p => new[j] = old[j] ]_vars

\* a set by integer index has succeeded on two columns of two rows
C9_Witness ==
    /\ last.op = "set" /\ last.kind = "int" /\ last.err = NoError
    /\ Len(objs[1]) = 2
    /\ __len__(heap, objs[1]) = 2
    /\ Rectangular(heap, objs[1])

-----------------------------------------------------------------------------
(* SpecCopy: a Dataset and its copy, both kept and both called *)

PairIntKeys == { <<"int", 0, 0>>, <<"int", -1, 0>> }
PairIntValues ==
    { [k \in 1 .. 4 |-> << <<"a", "b", "c", "z">>[k], (v + k) % 2 >>] : v \in Vals }
    \cup { << <<"b", 1>>, <<"c", 0>> >> }
PairSliceKeys == { <<"slice", 0, 1>> }
PairSliceValues ==
    { [k \in 1 .. 4 |-> << <<"a", "b", "c", "z">>[k], Column(n, k) >>] : n \in {0, 2} }
PairConverterLists ==
    { << <<"a", "succ">> >>, << <<"b", "zero">>, <<"z", "succ">> >> }

RECURSIVE Cells(_, _, _)
\* the number of values the fields k.. of a Dataset hold
Cells(h, f, k) == IF k > Len(f) THEN 0 ELSE Len(h[f[k][2]]) + Cells(h, f, k + 1)

Small == \A o \in DOMAIN objs : Cells(heap, objs[o], 1) <= MaxCells

InitCopy ==
    /\ \E order \in { <<"a">>, <<"b", "a">> }, n \in 0 .. MaxLen : Constructed(order, n)
    /\ Small
    /\ last = Start0
    /\ file = NoFile
    /\ it = NoIter

PairSetInt(self) ==
    \E key \in PairIntKeys, value \in PairIntValues : SetItem(self, TRUE, key, value)
PairSetSlice(self) ==
    /\ \E key \in PairSliceKeys, value \in PairSliceValues :
            SetItem(self, TRUE, key, value)
    /\ Small'
PairConvert(self) ==
    \E converters \in PairConverterLists : Convert(self, TRUE, converters, TRUE)
PairShuffle(self) == Shuffle(self, TRUE)
PairCopy(self) == Copy(self, TRUE)

NextCopy ==
    /\ \E self \in {1, 2} :
         \/ PairSetInt(self)
         \/ PairSetSlice(self)
         \/ PairConvert(self)
         \/ PairShuffle(self)
         \/ PairCopy(self)
    /\ UNCHANGED <<file, it>>

SpecCopy == InitCopy /\ [][NextCopy]_vars

\* C6: copy() returns another Dataset with the same field order and equal
\* columns, and from then on a set, shuffle or in-place convert on either of
\* the two leaves every column of the other unchanged.
C6_CopyIndependent ==
    [][ /\ (last'.op = "copy" /\ last'.err = NoError)
           => \A self \in DOMAIN objs :
                Copy(self, TRUE)
                => /\ last'.ret = 3 - self
                   /\ Cols(heap', objs'[self]) = Cols(heap, objs[self])
                   /\ Cols(heap', objs'[3 - self]) = Cols(heap, objs[self])
        /\ \A o \in DOMAIN objs :
             (o # last'.self /\ o # last'.ret)
             => /\ o \in DOMAIN objs'
                /\ Cols(heap', objs'[o]) = Cols(heap, objs[o]) ]_vars

\* a call has changed one of a Dataset and its copy, and the two now differ
C6_Witness ==
    /\ DOMAIN objs = {1, 2}
    /\ last.op \in {"set", "shuffle", "convert"} /\ last.err = NoError
    /\ Len(objs[1]) = 2
    /\ __len__(heap, objs[1]) = 2
    /\ Cols(heap, objs[1]) # Cols(heap, objs[2])

-----------------------------------------------------------------------------
(* SpecNew: d = Dataset(fields), for mappings of equal and unequal columns *)

NewOrders == { <<>>, <<"a">>, <<"b", "a">>, <<"a", "b", "c">>, <<"c", "a", "b">> }

\* the mappings handed to the constructor: every choice of column lengths
NewInputs ==
    UNION { { [k \in 1 .. Len(order) |-> <<order[k], Column(lens[k], k)>>] :
                lens \in [1 .. Len(order) -> 0 .. MaxLen] } : order \in NewOrders }

InitNew ==
    /\ heap = <<>>
    /\ objs = <<>>
    /\ last = Start0
    /\ file = NoFile
    /\ it = NoIter

\* d = Dataset(items): when __init__ raises, no object is bound and d keeps
\* the Dataset it held
Construct(items) ==
    LET a == Allocate(<<>>, items)
        r == __init__(a.heap, a.fields)
    IN  /\ last' = [op |-> "construct", self |-> 0, kind |-> "", arg |-> items,
                    err |-> r.err, msg |-> r.msg,
                    ret |-> IF r.err = NoError THEN 1 ELSE 0]
        /\ IF r.err = NoError
           THEN heap' = a.heap /\ objs' = (1 :> a.fields)
           ELSE UNCHANGED <<heap, objs>>

NextNew ==
    /\ \E items \in NewInputs : Construct(items)
    /\ UNCHANGED <<file, it>>

SpecNew == InitNew /\ [][NextNew]_vars

\* the fields of a mapping whose column is not as long as the first column
Differing(items) == { k \in 1 .. Len(items) : Len(items[k][2]) # Len(items[1][2]) }

\* C8: construct succeeds exactly when every column is as long as the first
\* (an empty mapping succeeds, with length 0); otherwise it fails naming the
\* first field with its length and the first field of another length with
\* its length, and no Dataset is produced.
C8_ConstructChecksLengths ==
    [][ last'.op = "construct"
        => LET items == last'.arg
           IN  /\ (last'.err = NoError) <=> (Differing(items) = {})
               /\ last'.err = NoError
                  => /\ last'.ret = 1
                     /\ Cols(heap', objs'[1]) = items
                     /\ __len__(heap', objs'[1]) =
                            IF Len(items) = 0 THEN 0 ELSE Len(items[1][2])
               /\ last'.err # NoError
                  => LET k == CHOOSE k \in Differing(items) :
                                \A j \in Differing(items) : k <= j
                     IN  /\ last'.err = "InvalidFieldsException"
                         /\ last'.msg = <<"length", items[1][1], Len(items[1][2]),
                                          items[k][1], Len(items[k][2])>>
                         /\ last'.ret = 0
                         /\ objs' = objs /\ heap' = heap ]_vars

\* a construct has failed on its third column after an empty first column
C8_Witness ==
    /\ last.op = "construct" /\ last.err = "InvalidFieldsException"
    /\ Len(last.arg) = 3
    /\ Len(last.arg[1][2]) = 0
    /\ Len(last.arg[2][2]) = 0
    /\ Len(last.arg[3][2]) = 2

-----------------------------------------------------------------------------
(* SpecIter: passes of `for row in d` interleaved with calls that change d *)

IterIntKeys == { <<"int", 0, 0>> }
IterIntValues == { << <<"a", v>>, <<"b", 1 - v>> >> : v \in Vals }
IterSliceKeys == { <<"slice", 0, 2>> }
\* sequences that shrink or grow both columns alike, and one that does not
IterSliceValues ==
    { << <<"a", Column(n, 1)>>, <<"b", Column(n, 2)>> >> : n \in 1 .. MaxLen }
    \cup { << <<"a", Column(2, 1)>>, <<"b", Column(1, 2)>> >> }
IterConverterLists == { << <<"a", "succ">> >> }

InitIter ==
    /\ \E order \in { <<"a">>, <<"b", "a">> }, n \in 0 .. MaxLen : Constructed(order, n)
    /\ last = Start0
    /\ file = NoFile
    /\ it = NoIter

\* g = iter(d): a new generator; its body has not started
Iter ==
    /\ it' = [state |-> "created", self |-> 1, n |-> 0, i |-> 0]
    /\ last' = [Start0 EXCEPT !.op = "iter", !.self = 1]
    /\ UNCHANGED <<heap, objs, file>>

\* the loop over xrange(len(self) - 1)
NextRowShort(n, i) == IF i + 1 < n THEN "yield" ELSE "stop"

\* `for i in xrange(len(self))`: with i rows produced of n, the body goes on
\* to `yield self[i]` or the loop ends
NextRow(n, i) == IF i < n THEN "yield" ELSE "stop"

\* next(g): the first call evaluates xrange(len(self)); each call evaluates
\* self[i] for the next i, and yields it, or ends with StopIteration, or
\* propagates the IndexError of self[i]
IterNext ==
    /\ it.state \in {"created", "running"}
    /\ LET n == IF it.state = "created" THEN __len__(heap, objs[1]) ELSE it.n
           r == __getitem__(heap, objs[1], <<"int", it.i, 0>>)
       IN  IF NextRow(n, it.i) = "stop"
           THEN /\ it' = [it EXCEPT !.state = "done", !.n = n]
                /\ last' = [Start0 EXCEPT !.op = "next", !.self = 1,
                                          !.err = "StopIteration"]
           ELSE IF r.err # NoError
           THEN /\ it' = [it EXCEPT !.state = "raised", !.n = n]
                /\ last' = [Start0 EXCEPT !.op = "next", !.self = 1, !.err = r.err]
           ELSE /\ it' = [it EXCEPT !.state = "running", !.n = n, !.i = it.i + 1]
                /\ last' = [Start0 EXCEPT !.op = "next", !.self = 1, !.arg = r.row]
    /\ UNCHANGED <<heap, objs, file>>

IterSetInt == \E key \in IterIntKeys, value \in IterIntValues : SetItem(1, FALSE, key, value)
IterSetSlice ==
    \E key \in IterSliceKeys, value \in IterSliceValues : SetItem(1, FALSE, key, value)
IterConvert == \E converters \in IterConverterLists : Convert(1, FALSE, converters, TRUE)
IterShuffle == Shuffle(1, FALSE)

NextIter ==
    \/ Iter
    \/ IterNext
    \/ (IterSetInt \/ IterSetSlice \/ IterConvert \/ IterShuffle) /\ UNCHANGED <<file, it>>

SpecIter == InitIter /\ [][NextIter]_vars

-----------------------------------------------------------------------------
(* Strings, as sequences of characters, and the str methods the CONLL code
   uses *)

TAB == "\t"
NL == "\n"
Whitespace == { " ", TAB, NL }

\* the first position of character c in s, or 0
Find(s, c) ==
    IF \E i \in 1 .. Len(s) : s[i] = c
    THEN CHOOSE i \in 1 .. Len(s) : s[i] = c /\ \A j \in 1 .. i - 1 : s[j] # c
    ELSE 0

RECURSIVE lstrip(_, _)
\* s.lstrip(chars)
lstrip(s, chars) ==
    IF s # <<>> /\ s[1] \in chars THEN lstrip(Tail(s), chars) ELSE s

RECURSIVE rstrip(_, _)
rstrip(s, chars) ==
    IF s # <<>> /\ s[Len(s)] \in chars THEN rstrip(SubSeq(s, 1, Len(s) - 1), chars)
    ELSE s

\* s.strip()
strip(s) == rstrip(lstrip(s, Whitespace), Whitespace)

RECURSIVE split(_, _)
\* s.split(sep) for a one-character sep: the empty string gives ['']
split(s, sep) ==
    IF Find(s, sep) = 0 THEN <<s>>
    ELSE <<SubSeq(s, 1, Find(s, sep) - 1)>>
         \o split(SubSeq(s, Find(s, sep) + 1, Len(s)), sep)

RECURSIVE join(_, _)
\* sep.join(parts)
join(sep, parts) ==
    IF Len(parts) = 0 THEN <<>>
    ELSE IF Len(parts) = 1 THEN parts[1]
    ELSE parts[1] \o <<sep>> \o join(sep, Tail(parts))

RECURSIVE Lines(_)
\* the lines iterating over a file yields, each with its newline
Lines(text) ==
    IF text = <<>> THEN <<>>
    ELSE IF Find(text, NL) = 0 THEN <<text>>
    ELSE <<SubSeq(text, 1, Find(text, NL))>>
         \o Lines(SubSeq(text, Find(text, NL) + 1, Len(text)))

\* values of the CONLL model: None, or a string or a number with its str()
None == <<"None", <<>>>>
StrOf(chars) == <<"str", chars>>
IntOf(digits) == <<"int", digits>>

\* str(v)
str(v) == v[2]

-----------------------------------------------------------------------------
(* Dataset.write_conll and Dataset.load_conll *)

\* a missing value written as the empty string
CellEmpty(v) == IF v = None THEN <<>> ELSE str(v)

\* '-' if v is None else str(v)
Cell(v) == IF v = None THEN <<"-">> ELSE str(v)

\* None if e == '-' else e
Token(e) == IF e = <<"-">> THEN None ELSE StrOf(e)

\* the text write_conll writes for the rows i.. of a Dataset of n rows
RECURSIVE WriteRows(_, _, _, _)
WriteRows(h, f, i, n) ==
    IF i >= n THEN <<>>
    ELSE LET d == __getitem__(h, f, <<"int", i, 0>>).row
             line == join(TAB, [k \in 1 .. Len(d) |-> Cell(d[k][2])])
         IN  line \o (IF i # n - 1 THEN <<NL>> ELSE <<>>) \o WriteRows(h, f, i + 1, n)

\* Dataset.write_conll: the contents of the file written
write_conll(h, f) ==
    <<"#", " ">> \o join(TAB, Keys(f)) \o <<NL>> \o WriteRows(h, f, 0, __len__(h, f))

RECURSIVE Unique(_)
\* the keys of OrderedDict([(head, []) for head in header]): each name once,
\* at its first place
Unique(header) ==
    IF header = <<>> THEN <<>>
    ELSE LET init == Unique(SubSeq(header, 1, Len(header) - 1))
         IN  IF header[Len(header)] \in Range(init) THEN init
             ELSE Append(init, header[Len(header)])

RECURSIVE LoadLines(_, _, _)
\* `for line in f`, from the k-th line on; cols are the columns so far
LoadLines(lines, k, cols) ==
    IF k > Len(lines) THEN [err |-> NoError, cols |-> cols]
    ELSE IF strip(lines[k]) = <<>> THEN LoadLines(lines, k + 1, cols)
    ELSE LET parts == split(strip(lines[k]), TAB)
             rows  == [j \in 1 .. Len(parts) |-> Token(parts[j])]
         IN  IF Len(rows) < Len(cols) THEN [err |-> "IndexError", cols |-> cols]
             ELSE LoadLines(lines, k + 1,
                            [j \in 1 .. Len(cols) |-> Append(cols[j], rows[j])])

\* Dataset.load_conll up to `return cls(fields)`: the mapping read from the
\* text, or the exception raised
load_conll(text) ==
    LET lines == Lines(text)
    IN  IF lines = <<>> THEN [err |-> "StopIteration", items |-> <<>>]
        ELSE LET header == split(strip(lines[1]), TAB)
                 names  == Unique([header EXCEPT ![1] = lstrip(@, {"#", " "})])
                 r      == LoadLines(lines, 2, [j \in 1 .. Len(names) |-> <<>>])
             IN  [err |-> r.err,
                  items |-> [j \in 1 .. Len(names) |-> <<names[j], r.cols[j]>>]]

-----------------------------------------------------------------------------
(* SpecIO: a Dataset is written to a file and the file is loaded *)

\* field names of the stored datasets, as mappings' key lists
IONames ==
    { <<>>, << <<"x">> >>, << <<"x">>, <<"y">> >>, << <<"#", "x">> >> }

\* the values the stored datasets hold: a missing value, a string and a
\* number, and strings the file format has no way to write
PlainValues == { None, StrOf(<<"x">>), IntOf(<<"7">>) }
OddValues == { StrOf(<<"-">>), StrOf(<<>>), StrOf(<<" ", "x">>) }

\* the mappings of n rows over plain values
PlainInputs(names, n) ==
    { [k \in 1 .. Len(names) |-> <<names[k], cols[k]>>] :
        cols \in [1 .. Len(names) -> [1 .. n -> PlainValues]] }

\* a mapping with the i-th value of its k-th column replaced by v
WithValue(items, k, i, v) ==
    [items EXCEPT ![k] = <<items[k][1], [items[k][2] EXCEPT ![i] = v]>>]

\* the stored datasets: plain ones, and plain ones with one odd value
IOInputs ==
    UNION { UNION { PlainInputs(names, n)
                    \cup { WithValue(items, k, i, v) :
                            items \in PlainInputs(names, n),
                            k \in 1 .. Len(names), i \in 1 .. n, v \in OddValues } :
                    n \in 0 .. MaxLen } : names \in IONames }

InitIO ==
    /\ \E items \in IOInputs :
         LET a == Allocate(<<>>, items)
         IN  /\ __init__(a.heap, a.fields).err = NoError
             /\ heap = a.heap
             /\ objs = (1 :> a.fields)
    /\ last = Start0
    /\ file = NoFile
    /\ it = NoIter

\* d.write_conll(fname)
Store ==
    /\ file' = write_conll(heap, objs[1])
    /\ last' = [Start0 EXCEPT !.op = "store", !.self = 1]
    /\ UNCHANGED <<heap, objs, it>>

\* e = Dataset.load_conll(fname)
Load ==
    /\ file # NoFile
    /\ LET r == load_conll(file)
           a == Allocate(heap, r.items)
           c == IF r.err = NoError THEN __init__(a.heap, a.fields)
                ELSE [err |-> r.err, msg |-> <<>>]
       IN  /\ last' = [Start0 EXCEPT !.op = "load", !.err = c.err, !.msg = c.msg,
                                     !.ret = IF c.err = NoError THEN 2 ELSE 0]
           /\ LET os == IF c.err = NoError
                        THEN (1 :> objs[1]) @@ (2 :> a.fields)
                        ELSE (1 :> objs[1])
              IN  /\ heap' = CollectHeap(a.heap, os)
                  /\ objs' = CollectObjs(os)
    /\ UNCHANGED <<file, it>>

NextIO == Store \/ Load

SpecIO == InitIO /\ [][NextIO]_vars

-----------------------------------------------------------------------------
(* Properties of SpecIO *)

\* what a stored value is expected to be loaded as
Loaded(v) == IF v = None THEN None ELSE StrOf(str(v))

\* the loaded Dataset has the fields, the rows and the values of the stored one
SameAsStored ==
    /\ last.err = NoError
    /\ 2 \in DOMAIN objs
    /\ Keys(objs[2]) = Keys(objs[1])
    /\ __len__(heap, objs[2]) = __len__(heap, objs[1])
    /\ \A k \in 1 .. Len(objs[1]) :
         Col(heap, objs[2], k) =
            [i \in 1 .. Len(Col(heap, objs[1], k)) |-> Loaded(Col(heap, objs[1], k)[i])]

\* C7 as stated: for every dataset, load(store(d)) has the field names, the
\* row count and the values of d, each value as its string form and each
\* missing value as missing.
C7_RoundTrip == last.op = "load" => SameAsStored

\* a text that is not empty and holds no whitespace
Solid(chars) == chars # <<>> /\ \A i \in 1 .. Len(chars) : chars[i] \notin Whitespace

\* a Dataset the file format can hold: at least one field, names and string
\* forms solid, the first name not starting with '#', no value written "-"
Storable(h, f) ==
    /\ Len(f) >= 1
    /\ \A k \in 1 .. Len(f) : Solid(f[k][1])
    /\ f[1][1][1] # "#"
    /\ \A k \in 1 .. Len(f) : \A i \in 1 .. Len(Col(h, f, k)) :
         LET v == Col(h, f, k)[i]
         IN  v # None => (Solid(str(v)) /\ str(v) # <<"-">>)

\* C7 amended: for a dataset with at least one field whose field names and
\* values' string forms are non-empty and free of whitespace, whose first
\* field name does not start with '#' and none of whose values has the string
\* form '-', each row is written with '-' for a missing value and the string
\* form for any other, and load(store(d)) has the field names, the row count
\* and the values of d, each value as its string form and each missing value
\* as missing.
C7_RoundTripStorable ==
    (file # NoFile /\ Storable(heap, objs[1]))
    => /\ Len(Lines(file)) = 1 + __len__(heap, objs[1])
       /\ \A i \in 1 .. __len__(heap, objs[1]) :
            split(strip(Lines(file)[i + 1]), TAB) =
                [k \in 1 .. Len(objs[1]) |->
                    IF Col(heap, objs[1], k)[i] = None THEN <<"-">>
                    ELSE str(Col(heap, objs[1], k)[i])]
       /\ last.op = "load" => SameAsStored

\* a dataset of two fields and two rows with a missing value and a number has
\* been stored and loaded
C7_Witness ==
    /\ last.op = "load" /\ last.err = NoError
    /\ Storable(heap, objs[1])
    /\ Len(objs[1]) = 2
    /\ __len__(heap, objs[1]) = 2
    /\ Col(heap, objs[1], 2)[2] = None
    /\ Col(heap, objs[1], 1)[1] = IntOf(<<"7">>)

-----------------------------------------------------------------------------
(* Properties of SpecIter *)

\* C10 as stated, for a Dataset whose columns have one length: a pass never
\* fails, and when it ends it has produced one row for each position
\* 0..length()-1 of the dataset.
C10_PassCoversLength ==
    [][ (last'.op = "next" /\ Rectangular(heap, objs[1]))
        => /\ it'.state # "raised"
           /\ it'.state = "done" => it'.i = __len__(heap, objs[1]) ]_vars

\* C10 amended: a pass reads length() once, when its first row is asked for,
\* and visits the positions 0..n-1 in order; at position k it produces get(k)
\* of the dataset as it is at that moment, or ends with the IndexError of
\* get(k) when a column no longer has position k; after n rows it ends. It
\* changes nothing in the dataset.
C10_PassReadsLengthOnce ==
    [][ last'.op = "next"
        => LET n == IF it.state = "created" THEN __len__(heap, objs[1]) ELSE it.n
               k == it.i
               there == \A c \in 1 .. Len(objs[1]) : k < Len(Col(heap, objs[1], c))
           IN  /\ it'.n = n
               /\ (it'.state = "done") <=> (k >= n)
               /\ (it'.state = "raised") <=> (k < n /\ ~there)
               /\ (it'.state = "running") <=> (k < n /\ there)
               /\ it'.state = "raised" => last'.err = "IndexError" /\ it'.i = k
               /\ it'.state = "done" => it'.i = k
               /\ it'.state = "running"
                  => /\ it'.i = k + 1
                     /\ last'.arg = [c \in 1 .. Len(objs[1]) |->
                                        <<objs[1][c][1], Col(heap, objs[1], c)[k + 1]>>]
               /\ heap' = heap /\ objs' = objs ]_vars

\* a pass over two equal columns has ended with IndexError after its first
\* row, the dataset having shrunk meanwhile
C10_Witness ==
    /\ it.state = "raised" /\ it.i = 1 /\ it.n = 2
    /\ last.op = "next"
    /\ Len(objs[1]) = 2
    /\ Rectangular(heap, objs[1])
    /\ __len__(heap, objs[1]) = 1

=============================================================================
